---------------------------- MODULE Spec2Model ----------------------------
(***************************************************************************)
(* Model of the RAG core of the repository:                                *)
(*   - DocumentProcessor.chunk_text        (services/document_processor.py)*)
(*   - DocumentProcessorService.process_document                           *)
(*   - VectorStoreService                  (services/vector_store.py)      *)
(*                                                                         *)
(* A text is a sequence of one-character strings.  Python's 0-based        *)
(* indexing, negative indexes and slice clamping are modelled explicitly.  *)
(***************************************************************************)
EXTENDS Integers, Sequences, FiniteSets, TLC

VARIABLES
    \* ---- chunk_text (one call, executed iteration by iteration)
    text,        \* the argument text
    chunk_size,  \* the argument chunk_size
    overlap,     \* the argument overlap
    start,       \* local variable start
    chunks,      \* local variable chunks
    windows,     \* history: the <<start, end>> of every slice taken so far
    pc,          \* "call" | "loop" | "done" | "raised" | "idle"
    \* ---- process_document (one call)
    file,        \* the file at file_path: [exists, stem, suffix]
    callerMeta,  \* the argument metadata: [none, dict]
    extraction,  \* what processor.extract_text did: [raised, msg, text]
    statFails,   \* whether file_path.stat() raised
    result,      \* the returned dict
    steps,       \* history: the steps of the pipeline that ran, in order
    propagated,  \* whether an exception reached the caller
    ppc,         \* "call" | "returned" | "idle"
    \* ---- VectorStoreService and the ChromaDB client behind it
    backend,     \* the client's collections: name -> [present, recs]
    cache,       \* self.collections: the names holding a cached handle
    lastOp,      \* history: the last call, its arguments and how it ended
    found,       \* what the last search_similar_content returned
    stats,       \* what the last get_collection_stats returned
    \* ---- AIService._get_relevant_context
    similar_docs,   \* what search_similar_content gave the call
    retrieval,      \* "returns" | "raises": how the search ended
    context_parts,  \* history: the list joined into the context
    context,        \* the string the call returned
    contextRaised,  \* an exception left the call
    cpc,            \* "call" | "returned" | "idle"
    \* ---- the document records and their background tasks
    kb,          \* the knowledge_bases rows, by id
    task,        \* where each document's process_document_async is
    assigned,    \* history: the statuses assigned to each document, in order
    committed,   \* history: the statuses committed for each document
    index        \* the document ids the vector index holds chunks for

chunkVars == <<text, chunk_size, overlap, start, chunks, windows, pc>>

processVars ==
    <<file, callerMeta, extraction, statFails, result, steps, propagated, ppc>>

storeVars == <<backend, cache, lastOp, found, stats>>

contextVars ==
    <<similar_docs, retrieval, context_parts, context, contextRaised, cpc>>

kbVars == <<kb, task, assigned, committed, index>>

vars == <<chunkVars, processVars, storeVars, contextVars, kbVars>>

-----------------------------------------------------------------------------
(* Bounds of the model *)

MaxLen == 4          \* longest enumerated text
MaxChunkSize == 3    \* largest enumerated chunk_size
MaxOverlap == 3      \* largest enumerated overlap
MaxPersona == 2      \* personas are 1..MaxPersona
MaxResults == 4      \* most results a search hands to the context builder
MaxDocs == 2         \* document ids are 1..MaxDocs

\* More iterations than any terminating call of the enumerated inputs runs.
ChunkCap == MaxLen + MaxOverlap + 4

-----------------------------------------------------------------------------
(* Program constants *)

CHUNK_SIZE == 1000
CHUNK_OVERLAP == 200
LOOKBACK == 100
TOP_K_RETRIEVAL == 5
CONTEXT_DOCS == 3
SAMPLE_LIMIT == 10
CONTEXT_CHARS == 500

-----------------------------------------------------------------------------
(* Characters and Python string primitives *)

\* The characters of the enumerated texts: a letter, a full stop, a space,
\* a real newline and the letter n.
Alphabet == {"a", ".", " ", "\n", "n"}

\* The members of the literal '.!?\\n' of the source: a full stop, an
\* exclamation mark, a question mark, a backslash and the letter n.
SentenceEnders == {".", "!", "?", "\\", "n"}

\* str.strip() with no argument removes whitespace.
Whitespace == {" ", "\n", "\t", "\r"}

Max(a, b) == IF a >= b THEN a ELSE b

Min(a, b) == IF a <= b THEN a ELSE b

\* Python's s[i]: negative i counts from the end; out of range raises.
PyInRange(s, i) == i >= 0 - Len(s) /\ i < Len(s)

PyAt(s, i) == IF i >= 0 THEN s[i + 1] ELSE s[Len(s) + i + 1]

\* Python's clamping of a slice bound.
PyClamp(s, i) == IF i < 0 THEN Max(Len(s) + i, 0) ELSE Min(i, Len(s))

\* Python's s[a:b].
PySlice(s, a, b) ==
    LET lo == PyClamp(s, a)
        hi == PyClamp(s, b)
    IN  IF lo < hi THEN SubSeq(s, lo + 1, hi) ELSE << >>

\* The 1-based position of the first and of the last character of s that
\* is not whitespace (s holds one).
FirstNonWs(s) ==
    CHOOSE i \in 1..Len(s) :
        s[i] \notin Whitespace /\ \A j \in 1..(i - 1) : s[j] \in Whitespace

LastNonWs(s) ==
    CHOOSE i \in 1..Len(s) :
        s[i] \notin Whitespace /\ \A j \in (i + 1)..Len(s) : s[j] \in Whitespace

\* Whether s.strip() is empty.
IsBlank(s) == \A i \in 1..Len(s) : s[i] \in Whitespace

\* str.strip()
Strip(s) == IF IsBlank(s) THEN << >> ELSE SubSeq(s, FirstNonWs(s), LastNonWs(s))

-----------------------------------------------------------------------------
(* chunk_text *)

\* The largest member of a non-empty set of integers.
MaxOf(S) == CHOOSE m \in S : \A x \in S : x <= m

\* The for loop of lines 67-70: i runs from end down to lo + 1 and stops at
\* the first i whose character is in the literal, giving end = i + 1.  The
\* result is [raised, end]: raised when that i is out of range (IndexError).
ScanBack(s, end, lo) ==
    LET stops == {i \in (lo + 1)..end :
                     ~PyInRange(s, i) \/ PyAt(s, i) \in SentenceEnders}
    IN  IF stops = {} THEN [raised |-> FALSE, end |-> end]
        ELSE IF ~PyInRange(s, MaxOf(stops)) THEN [raised |-> TRUE, end |-> end]
        ELSE [raised |-> FALSE, end |-> MaxOf(stops) + 1]

\* Lines 62-70: the end of the window that starts at st.
FindEnd(s, st, cs) ==
    LET end == st + cs
    IN  IF end < Len(s)
        THEN ScanBack(s, end, Max(st + cs - LOOKBACK, st))
        ELSE [raised |-> FALSE, end |-> end]

\* Mutant: the next window starts where the current one ends.
NextStartAtEnd(st, end, ov) == end

\* Mutant: the overlap is added to the end instead of subtracted.
NextStartForward(st, end, ov) == end + ov

\* Lines 76-80: the next start.
NextStart(st, end, ov) ==
    LET s1 == end - ov
    IN  IF s1 >= end THEN end ELSE s1

\* Mutant: the short text is stripped before it is returned.
ShortResultStripped(s) == <<Strip(s)>>

\* Lines 55-56: the result for len(text) <= chunk_size.
ShortResult(s) == <<s>>

\* Mutant: the window is appended as cut, without strip().
AppendChunkRaw(cs, s, st, end) ==
    LET chunk == PySlice(s, st, end)
    IN  IF chunk # << >> /\ Len(cs) < ChunkCap THEN Append(cs, chunk) ELSE cs

\* Lines 72-74: the chunk list after the window [st, end) is cut.
AppendChunk(cs, s, st, end) ==
    LET chunk == Strip(PySlice(s, st, end))
    IN  IF chunk # << >> /\ Len(cs) < ChunkCap THEN Append(cs, chunk) ELSE cs

\* The enumerated texts: every sequence over Alphabet of length <= MaxLen.
Texts == UNION {[1..n -> Alphabet] : n \in 0..MaxLen}

\* Texts of the 2500-character scenario: letters, a full stop at 0-based
\* index dot (none when dot < 0) and a tail of `tail` spaces.
ScenarioText(dot, tail) ==
    [i \in 1..2500 |->
        IF i > 2500 - tail THEN " " ELSE IF i = dot + 1 THEN "." ELSE "a"]

ScenarioDots == {0 - 1, 899, 900, 901, 999, 1000, 1001, 1700, 1801, 2402}

ScenarioTails == {0, 99, 100, 101, 900}

ScenarioTexts == {ScenarioText(d, t) : d \in ScenarioDots, t \in ScenarioTails}

Personas == 1..MaxPersona

DocIds == {"d1", "d2"}

\* The enumerated chunk texts and chunk lists.
ChunkTexts == {"x", "y"}

ChunkLists == {<< >>, <<"x">>, <<"x", "y">>}

\* The enumerated document metadata.
Metas == {[title |-> "t"]}

\* Mutant: the persona id is left out of the name.
SharedCollectionName(persona_id) == <<"persona_", "_knowledge">>

\* Lines 63-65: f"persona_{persona_id}_knowledge"
CollectionName(persona_id) == <<"persona_", persona_id, "_knowledge">>

Names == {CollectionName(p) : p \in Personas}

\* Line 116: f"{document_id}_chunk_{i}"
ChunkId(document_id, i) == <<document_id, "_chunk_", i>>

NoCollection == [present |-> FALSE, recs |-> {}]

NoOp == [op |-> "none", persona_id |-> 0, document_id |-> "", query |-> "",
         n_chunks |-> 0, ok |-> TRUE, fault |-> FALSE, raised |-> FALSE]

NoStats == [failed |-> FALSE, total_chunks |-> 0, estimated_documents |-> 0]

\* No call on the vector store is modelled.
StoreIdle ==
    /\ backend = [n \in Names |-> NoCollection]
    /\ cache = {}
    /\ lastOp = NoOp
    /\ found = << >>
    /\ stats = NoStats

KbIds == 1..MaxDocs

\* models/knowledge_base.py lines 24-27
PENDING == "pending"

PROCESSING == "processing"

COMPLETED == "completed"

FAILED == "failed"

\* A nullable column: NULL, or a value.
Null == [null |-> TRUE, value |-> << >>]

Some(v) == [null |-> FALSE, value |-> v]

NoRow ==
    [exists |-> FALSE, processing_status |-> PENDING,
     processing_error |-> Null, vector_store_id |-> Null]

\* No document has been uploaded.
KbIdle ==
    /\ kb = [d \in KbIds |-> NoRow]
    /\ task = [d \in KbIds |-> "none"]
    /\ assigned = [d \in KbIds |-> << >>]
    /\ committed = [d \in KbIds |-> << >>]
    /\ index = {}

\* No call of _get_relevant_context is modelled.
ContextIdle ==
    /\ similar_docs = << >> /\ retrieval = "returns"
    /\ context_parts = << >> /\ context = << >>
    /\ contextRaised = FALSE /\ cpc = "idle"

\* No call of chunk_text is modelled.
ChunkIdle ==
    /\ text = << >> /\ chunk_size = 0 /\ overlap = 0 /\ start = 0
    /\ chunks = << >> /\ windows = << >> /\ pc = "idle"

NoFile == [exists |-> FALSE, stem |-> << >>, suffix |-> << >>]

NoMeta == [none |-> TRUE, dict |-> << >>]

NoExtraction == [raised |-> FALSE, msg |-> << >>, text |-> << >>]

NoResult == [success |-> FALSE]

\* No call of process_document is modelled.
ProcessIdle ==
    /\ file = NoFile /\ callerMeta = NoMeta /\ extraction = NoExtraction
    /\ statFails = FALSE /\ result = NoResult /\ steps = << >>
    /\ propagated = FALSE /\ ppc = "idle"

\* A call chunk_text(text, chunk_size, overlap) about to run.
ChunkInit ==
    /\ \/ /\ text \in Texts
          /\ chunk_size \in 1..MaxChunkSize
          /\ overlap \in 0..MaxOverlap
       \/ /\ text \in ScenarioTexts
          /\ chunk_size = CHUNK_SIZE
          /\ overlap = CHUNK_OVERLAP
    /\ start = 0
    /\ chunks = << >>
    /\ windows = << >>
    /\ pc = "call"
    /\ ProcessIdle
    /\ StoreIdle
    /\ ContextIdle
    /\ KbIdle

\* Lines 55-59: the early return, or the loop's initialisation.
ChunkCall ==
    /\ pc = "call"
    /\ IF Len(text) <= chunk_size
       THEN chunks' = ShortResult(text) /\ pc' = "done"
       ELSE chunks' = << >> /\ pc' = "loop"
    /\ start' = 0
    /\ UNCHANGED <<text, chunk_size, overlap, windows>>
    /\ UNCHANGED <<processVars, storeVars, contextVars, kbVars>>

\* Lines 61-80: one iteration of the while loop, and the loop test that
\* follows it (line 61, then line 82 when it fails).
ChunkStep ==
    /\ pc = "loop"
    /\ start < Len(text)
    /\ LET scan == FindEnd(text, start, chunk_size)
       IN  IF scan.raised
           THEN /\ pc' = "raised"
                /\ UNCHANGED <<start, chunks, windows>>
           ELSE /\ chunks' = AppendChunk(chunks, text, start, scan.end)
                /\ windows' = IF Len(windows) < ChunkCap
                                 THEN Append(windows, <<start, scan.end>>)
                                 ELSE windows
                /\ start' = NextStart(start, scan.end, overlap)
                /\ pc' = IF start' < Len(text) THEN "loop" ELSE "done"
    /\ UNCHANGED <<text, chunk_size, overlap>>
    /\ UNCHANGED <<processVars, storeVars, contextVars, kbVars>>

ChunkNext == ChunkCall \/ ChunkStep

SpecChunk == ChunkInit /\ [][ChunkNext]_vars

-----------------------------------------------------------------------------
(* chunk_text as one function, the way process_document calls it *)

RECURSIVE ChunkLoop(_, _, _, _, _)
ChunkLoop(s, cs, ov, st, acc) ==
    IF st >= Len(s) THEN [raised |-> FALSE, chunks |-> acc]
    ELSE LET scan == FindEnd(s, st, cs)
         IN  IF scan.raised THEN [raised |-> TRUE, chunks |-> << >>]
             ELSE ChunkLoop(s, cs, ov, NextStart(st, scan.end, ov),
                            AppendChunk(acc, s, st, scan.end))

\* Lines 50-82.  Evaluated only with the configured sizes, for which the
\* loop advances by at least 702 characters an iteration.
ChunkText(s, cs, ov) ==
    IF Len(s) <= cs THEN [raised |-> FALSE, chunks |-> ShortResult(s)]
    ELSE ChunkLoop(s, cs, ov, 0, << >>)

-----------------------------------------------------------------------------
(* process_document *)

\* str.lower() on the characters the enumerated suffixes use.
LowerChar(c) ==
    CASE c = "T" -> "t"
      [] c = "X" -> "x"
      [] c = "C" -> "c"
      [] c = "S" -> "s"
      [] c = "V" -> "v"
      [] c = "M" -> "m"
      [] c = "D" -> "d"
      [] OTHER -> c

Lower(s) == [i \in 1..Len(s) |-> LowerChar(s[i])]

\* str.lstrip('.')
RECURSIVE LStripDots(_)
LStripDots(s) ==
    IF s # << >> /\ Head(s) = "." THEN LStripDots(Tail(s)) ELSE s

\* Line 223 (and 270): file_path.suffix.lower().lstrip('.')
Extension(f) == LStripDots(Lower(f.suffix))

\* Lines 214-219: the processors, in the dict's insertion order.
ProcessorOrder == <<"pdf", "docx", "txt", "md">>

\* get_supported_extensions of each processor (lines 113, 146, 175, 202).
SupportedExtensions(p) ==
    CASE p = "pdf" -> {<<"p", "d", "f">>}
      [] p = "docx" -> {<<"d", "o", "c", "x">>}
      [] p = "txt" -> {<<"t", "x", "t">>}
      [] p = "md" -> {<<"m", "d">>, <<"m", "a", "r", "k", "d", "o", "w", "n">>}

\* Mutant: a file no processor supports is handed to the plain-text one.
GetProcessorOrText(f) ==
    LET hits == {k \in 1..Len(ProcessorOrder) :
                    Extension(f) \in SupportedExtensions(ProcessorOrder[k])}
    IN  IF hits = {} THEN "txt"
        ELSE ProcessorOrder[CHOOSE k \in hits : \A j \in hits : k <= j]

\* Lines 221-229: the first processor supporting the extension, or "none".
GetProcessorForFile(f) ==
    LET hits == {k \in 1..Len(ProcessorOrder) :
                    Extension(f) \in SupportedExtensions(ProcessorOrder[k])}
    IN  IF hits = {} THEN "none"
        ELSE ProcessorOrder[CHOOSE k \in hits : \A j \in hits : k <= j]

\* str(file_path)
PathStr(f) == f.stem \o f.suffix

\* Line 249: f"Arquivo não encontrado: {file_path}"
NotFoundMessage(f) ==
    <<"A", "r", "q", "u", "i", "v", "o", " ", "n", "ã", "o", " ", "e", "n",
      "c", "o", "n", "t", "r", "a", "d", "o", ":", " ">> \o PathStr(f)

\* Line 254: f"Tipo de arquivo não suportado: {file_path.suffix}"
UnsupportedMessage(f) ==
    <<"T", "i", "p", "o", " ", "d", "e", " ", "a", "r", "q", "u", "i", "v",
      "o", " ", "n", "ã", "o", " ", "s", "u", "p", "o", "r", "t", "a", "d",
      "o", ":", " ">> \o f.suffix

\* Line 261
EmptyExtractionMessage ==
    <<"N", "e", "n", "h", "u", "m", " ", "t", "e", "x", "t", "o", " ", "e",
      "x", "t", "r", "a", "í", "d", "o", " ", "d", "o", " ", "d", "o", "c",
      "u", "m", "e", "n", "t", "o">>

\* str() of the AttributeError that Path.ctime raises (line 273):
\* pathlib.Path has no attribute ctime.
NoCtimeMessage ==
    <<"t", "y", "p", "e", " ", "o", "b", "j", "e", "c", "t", " ", "'", "P",
      "a", "t", "h", "'", " ", "h", "a", "s", " ", "n", "o", " ", "a", "t",
      "t", "r", "i", "b", "u", "t", "e", " ", "'", "c", "t", "i", "m", "e",
      "'">>

\* str() of the OSError of a failed stat() (line 269).
StatMessage(f) ==
    <<"[", "E", "r", "r", "n", "o", " ", "2", "]", " ", "N", "o", " ", "s",
      "u", "c", "h", " ", "f", "i", "l", "e", " ", "o", "r", " ", "d", "i",
      "r", "e", "c", "t", "o", "r", "y", ":", " ">> \o PathStr(f)

\* str() of the IndexError of text[i] (line 68).
IndexErrorMessage ==
    <<"s", "t", "r", "i", "n", "g", " ", "i", "n", "d", "e", "x", " ", "o",
      "u", "t", " ", "o", "f", " ", "r", "a", "n", "g", "e">>

EmptyDict == [k \in {} |-> << >>]

\* Line 274 and 296: metadata or {}
MetaOrEmpty(m) == IF m.none THEN EmptyDict ELSE m.dict

\* Line 271: len(extracted_text.split()), the number of maximal runs of
\* characters that are not whitespace.
WordCount(s) ==
    Cardinality({i \in 1..Len(s) :
                    /\ s[i] \notin Whitespace
                    /\ (i = 1 \/ s[i - 1] \in Whitespace)})

\* The keys of lines 268-272 (the size is whatever stat() reports).
FileFactKeys ==
    {"file_name", "file_size", "file_type", "word_count", "chunk_count"}

\* Lines 268 and 270-272: the entries of the display computed from the
\* file's name, the extracted text and the chunks.
FileFacts(f, txt, ch) ==
    [file_name |-> PathStr(f), file_type |-> Extension(f),
     word_count |-> WordCount(txt), chunk_count |-> Len(ch)]

\* Line 274: **(metadata or {}) comes last in the display, so its entries
\* replace the earlier ones with the same key.
Overlay(base, over) ==
    [k \in DOMAIN base \cup DOMAIN over |->
        IF k \in DOMAIN over THEN over[k] ELSE base[k]]

\* Mutant: processed_at is taken from stat(), so the display completes
\* whenever stat() does.
FileMetadataFromStat(f, meta, sf) ==
    IF sf THEN [raised |-> TRUE, msg |-> StatMessage(f), dict |-> EmptyDict]
    ELSE [raised |-> FALSE, msg |-> << >>,
          dict |-> Overlay([processed_at |-> <<"0">>], MetaOrEmpty(meta))]

\* Mutant: the display has no processed_at entry, so it completes whenever
\* stat() does.
FileMetadataWithoutCtime(f, meta, sf) ==
    IF sf THEN [raised |-> TRUE, msg |-> StatMessage(f), dict |-> EmptyDict]
    ELSE [raised |-> FALSE, msg |-> << >>, dict |-> MetaOrEmpty(meta)]

\* Lines 267-275: the dict display is evaluated entry by entry; stat() may
\* raise, and Path.ctime(file_path) always raises AttributeError, so the
\* display never completes.
FileMetadata(f, meta, sf) ==
    IF sf THEN [raised |-> TRUE, msg |-> StatMessage(f), dict |-> EmptyDict]
    ELSE [raised |-> TRUE, msg |-> NoCtimeMessage, dict |-> EmptyDict]

\* Lines 291-299: the except clause catches every Exception and returns.
Failure(meta, msg, ran) ==
    [ret |-> [text |-> << >>, chunks |-> << >>, metadata |-> MetaOrEmpty(meta),
              success |-> FALSE, error |-> msg],
     steps |-> ran, propagated |-> FALSE]

\* Lines 277-289.
Success(txt, ch, md, ran) ==
    [ret |-> [text |-> txt, chunks |-> ch, metadata |-> md, success |-> TRUE],
     steps |-> ran, propagated |-> FALSE]

\* Lines 246-299: process_document, given what extract_text and stat() do.
ProcessOutcome(f, meta, ext, sf) ==
    IF ~f.exists
    THEN Failure(meta, NotFoundMessage(f), <<"exists">>)
    ELSE IF GetProcessorForFile(f) = "none"
    THEN Failure(meta, UnsupportedMessage(f), <<"exists", "lookup">>)
    ELSE IF ext.raised
    THEN Failure(meta, ext.msg, <<"exists", "lookup", "extract">>)
    ELSE IF IsBlank(ext.text)
    THEN Failure(meta, EmptyExtractionMessage,
                 <<"exists", "lookup", "extract", "blank">>)
    ELSE LET ch == ChunkText(ext.text, CHUNK_SIZE, CHUNK_OVERLAP)
             ran == <<"exists", "lookup", "extract", "blank", "chunk">>
         IN  IF ch.raised
             THEN Failure(meta, IndexErrorMessage, ran)
             ELSE LET fm == FileMetadata(f, meta, sf)
                  IN  IF fm.raised
                      THEN Failure(meta, fm.msg, Append(ran, "metadata"))
                      ELSE Success(ext.text, ch.chunks, fm.dict,
                                   Append(ran, "metadata"))

\* The enumerated files: present or absent, with these suffixes.
Suffixes ==
    {<< >>, <<".", "t", "x", "t">>, <<".", "T", "X", "T">>, <<".", "m", "d">>,
     <<".", "m", "a", "r", "k", "d", "o", "w", "n">>, <<".", "p", "d", "f">>,
     <<".", "d", "o", "c", "x">>, <<".", "c", "s", "v">>,
     <<".", "C", "S", "V">>}

Files == {[exists |-> e, stem |-> <<"f">>, suffix |-> x] :
             e \in BOOLEAN, x \in Suffixes}

\* The enumerated caller metadata: None, {}, a dict with a title, and one
\* that also supplies file_name.
CallerMetas ==
    {NoMeta, [none |-> FALSE, dict |-> EmptyDict],
     [none |-> FALSE, dict |-> [title |-> <<"T">>]],
     [none |-> FALSE, dict |-> [title |-> <<"T">>, file_name |-> <<"c">>]]}

\* The enumerated extracted texts: empty, blank, short ones, and two of
\* more than CHUNK_SIZE characters.
ExtractedTexts ==
    {<< >>, <<" ">>, <<"\n", " ">>, <<"a">>, <<"a", " ", "a">>,
     <<" ", "a", ".", "\n">>, ScenarioText(0 - 1, 0), ScenarioText(1000, 100)}

\* str() of the exceptions an extractor raises: any text, the empty one
\* included (str(MemoryError()) is '').
ExtractorMessages == {<< >>, <<"b", "o", "o", "m">>}

\* What extract_text does (lines 87-200): it returns a text or raises.
ExtractOutcomes ==
    {[raised |-> FALSE, msg |-> << >>, text |-> t] : t \in ExtractedTexts}
        \cup {[raised |-> TRUE, msg |-> m, text |-> << >>] :
                 m \in ExtractorMessages}

\* A call process_document(file_path, metadata) about to run.
ProcessInit ==
    /\ file \in Files
    /\ callerMeta \in CallerMetas
    /\ extraction = NoExtraction
    /\ statFails = FALSE
    /\ result = NoResult
    /\ steps = << >>
    /\ propagated = FALSE
    /\ ppc = "call"
    /\ ChunkIdle
    /\ StoreIdle
    /\ ContextIdle
    /\ KbIdle

\* Lines 246-299: the whole call.
ProcessDocument ==
    /\ ppc = "call"
    /\ \E ext \in ExtractOutcomes, sf \in BOOLEAN :
          LET out == ProcessOutcome(file, callerMeta, ext, sf)
          IN  /\ extraction' = ext
              /\ statFails' = sf
              /\ result' = out.ret
              /\ steps' = out.steps
              /\ propagated' = out.propagated
    /\ ppc' = "returned"
    /\ UNCHANGED <<file, callerMeta>>
    /\ UNCHANGED <<chunkVars, storeVars, contextVars, kbVars>>

ProcessNext == ProcessDocument

SpecProcess == ProcessInit /\ [][ProcessNext]_vars

-----------------------------------------------------------------------------
(* VectorStoreService *)

\* Lines 67-86: get_or_create_collection.  A cached handle is returned
\* without a client call; otherwise the client gets or creates the
\* collection (which may raise) and the handle is cached.
GetOrCreateCollection(b, c, persona_id, fails) ==
    LET name == CollectionName(persona_id)
    IN  IF name \in c THEN [raised |-> FALSE, b |-> b, c |-> c]
        ELSE IF fails THEN [raised |-> TRUE, b |-> b, c |-> c]
        ELSE [raised |-> FALSE,
              b |-> [b EXCEPT ![name].present = TRUE],
              c |-> c \cup {name}]

\* Lines 115-125: the records of one add_document call.  owner is history:
\* the persona_id argument of the call that made the record.
NewRecords(persona_id, document_id, text_chunks, metadata) ==
    {[id |-> ChunkId(document_id, i - 1),
      content |-> text_chunks[i],
      title |-> metadata.title,
      chunk_index |-> i - 1,
      document_id |-> document_id,
      owner |-> persona_id] : i \in 1..Len(text_chunks)}

Ids(recs) == {r.id : r \in recs}

\* Mutant: the except clause reports success.
AddFailedReturningTrue(got) ==
    [ok |-> TRUE, fault |-> TRUE, raised |-> FALSE, b |-> got.b, c |-> got.c]

\* Lines 137-139: the except clause logs and returns False.
AddFailed(got) ==
    [ok |-> FALSE, fault |-> TRUE, raised |-> FALSE, b |-> got.b, c |-> got.c]

\* Lines 107-139: add_document.  fault: which storage call raises: "none",
\* "collection" (the lookup or creation) or "call" (the insert, for any
\* reason: a client may refuse an empty id list, or an id the collection
\* holds).  An insert that does not raise adds nothing for an empty list
\* and skips the ids the collection holds.
AddDocumentOutcome(b, c, persona_id, document_id, text_chunks, metadata, fault) ==
    LET name == CollectionName(persona_id)
        got == GetOrCreateCollection(b, c, persona_id, fault = "collection")
        new == NewRecords(persona_id, document_id, text_chunks, metadata)
        held == Ids(got.b[name].recs)
        fresh == {r \in new : r.id \notin held}
    IN  IF got.raised THEN AddFailed([b |-> b, c |-> c])
        ELSE IF fault = "call" \/ ~got.b[name].present THEN AddFailed(got)
        ELSE [ok |-> TRUE, fault |-> FALSE, raised |-> FALSE,
              b |-> [got.b EXCEPT ![name].recs = @ \cup fresh],
              c |-> got.c]

\* Mutant: every collection is dropped.
ClearEverythingOutcome(b, c, persona_id, fault) ==
    [ok |-> TRUE, fault |-> FALSE,
     b |-> [n \in Names |-> NoCollection], c |-> {}]

\* Mutant: the get is made without the where clause.
GetAll(recs, document_id) == recs

\* Lines 206-208: collection.get(where={"document_id": document_id})
GetWhereDocumentId(recs, document_id) ==
    {r \in recs : r.document_id = document_id}

\* Lines 202-221: delete_document.  fault "call" is the get or the delete
\* raising.
DeleteDocumentOutcome(b, c, persona_id, document_id, fault) ==
    LET name == CollectionName(persona_id)
        got == GetOrCreateCollection(b, c, persona_id, fault = "collection")
        hit == GetWhereDocumentId(got.b[name].recs, document_id)
    IN  IF got.raised
        THEN [ok |-> FALSE, fault |-> TRUE, b |-> b, c |-> c]
        ELSE IF fault = "call" \/ ~got.b[name].present
        THEN [ok |-> FALSE, fault |-> TRUE, b |-> got.b, c |-> got.c]
        ELSE IF hit # {}
        THEN [ok |-> TRUE, fault |-> FALSE,
              b |-> [got.b EXCEPT ![name].recs = @ \ hit],
              c |-> got.c]
        ELSE [ok |-> FALSE, fault |-> FALSE, b |-> got.b, c |-> got.c]

\* Lines 269-284: clear_persona_collection.  The client raises when the
\* collection does not exist.
ClearPersonaCollectionOutcome(b, c, persona_id, fault) ==
    LET name == CollectionName(persona_id)
    IN  IF fault = "call" \/ ~b[name].present
        THEN [ok |-> FALSE, fault |-> TRUE, b |-> b, c |-> c]
        ELSE [ok |-> TRUE, fault |-> FALSE,
              b |-> [b EXCEPT ![name] = NoCollection],
              c |-> c \ {name}]

\* The distance of a record from the query: the embedding is a function of
\* the text alone, so equal texts are at distance 0.
Distance(query, content) == IF query = content THEN 0 ELSE 1

\* Line 170: where=filter_metadata; None, or an equality on document_id.
NoFilter == [none |-> TRUE, document_id |-> "d1"]

Filters == {NoFilter, [none |-> FALSE, document_id |-> "d1"]}

Matches(r, filter_metadata) ==
    filter_metadata.none \/ r.document_id = filter_metadata.document_id

\* Lines 163-164: n_results, or the configured top-k when it is None.
NResultsArgs == {[none |-> TRUE, n |-> 0], [none |-> FALSE, n |-> 1]}

EffectiveN(n_results) ==
    IF n_results.none THEN TOP_K_RETRIEVAL ELSE n_results.n

\* The orders in which a set of records can be listed.
Orders(S) ==
    {s \in [1..Cardinality(S) -> S] :
        \A i, j \in 1..Cardinality(S) : i < j => s[i] # s[j]}

\* Lines 167-171: what collection.query may return: the n nearest matching
\* records in order of distance (0, then 1), ties in any order.
Rankings(recs, query, n, filter_metadata) ==
    LET match == {r \in recs : Matches(r, filter_metadata)}
        near == {r \in match : Distance(query, r.content) = 0}
    IN  {SubSeq(a \o b, 1, Min(n, Cardinality(match))) :
            a \in Orders(near), b \in Orders(match \ near)}

\* What one search call meets: a storage call that raises, or an answer to
\* the query with the given n_results and filter_metadata.
QueryAnswers(recs, query) ==
    UNION {Rankings(recs, query, EffectiveN(n), f) :
              n \in NResultsArgs, f \in Filters}

\* Lines 174-182: the result dicts (owner is carried as history).
Format(query, ranked) ==
    [i \in 1..Len(ranked) |->
        [content |-> ranked[i].content,
         document_id |-> ranked[i].document_id,
         chunk_index |-> ranked[i].chunk_index,
         distance |-> Distance(query, ranked[i].content),
         id |-> ranked[i].id,
         owner |-> ranked[i].owner]]

\* Mutant: the except clause re-raises instead of returning [].
SearchFailedReraising(got) ==
    [found |-> << >>, fault |-> TRUE, raised |-> TRUE, b |-> got.b, c |-> got.c]

\* Lines 187-189: the except clause logs and returns [].
SearchFailed(got) ==
    [found |-> << >>, fault |-> TRUE, raised |-> FALSE, b |-> got.b, c |-> got.c]

\* Lines 160-189: search_similar_content, given the ranking the query gave.
SearchOutcome(b, c, persona_id, query, ranked, fault) ==
    LET name == CollectionName(persona_id)
        got == GetOrCreateCollection(b, c, persona_id, fault = "collection")
    IN  IF got.raised THEN SearchFailed([b |-> b, c |-> c])
        ELSE IF fault = "call" \/ ~got.b[name].present THEN SearchFailed(got)
        ELSE [found |-> Format(query, ranked), fault |-> FALSE,
              raised |-> FALSE, b |-> got.b, c |-> got.c]

\* Lines 30-61: a constructed and initialised service, on an empty store.
\* One lifetime of the process is modelled, so a handle is cached exactly
\* for the collections that exist.
StoreInit == StoreIdle

Faults == {"none", "collection", "call"}

\* client.get_or_create_collection is reached only without a cached handle.
FaultPossible(persona_id, fault) ==
    fault = "collection" => CollectionName(persona_id) \notin cache

\* The enumerated (document_id, text_chunks) arguments: every chunk list
\* for d1, the one-chunk list for the other documents.
AddInputs ==
    {a \in DocIds \X ChunkLists : a[1] = "d1" \/ Len(a[2]) = 1}

AddDocument ==
    \E p \in Personas, d \in DocIds, ch \in ChunkLists, m \in Metas,
       fault \in Faults :
        /\ <<d, ch>> \in AddInputs
        /\ FaultPossible(p, fault)
        /\ LET out == AddDocumentOutcome(backend, cache, p, d, ch, m, fault)
           IN  /\ backend' = out.b
               /\ cache' = out.c
               /\ lastOp' = [op |-> "add", persona_id |-> p,
                             document_id |-> d, query |-> "",
                             n_chunks |-> Len(ch), ok |-> out.ok,
                             fault |-> out.fault, raised |-> out.raised]
        /\ found' = << >>
        /\ stats' = NoStats
        /\ UNCHANGED <<chunkVars, processVars, contextVars, kbVars>>

DeleteDocument ==
    \E p \in Personas, d \in DocIds, fault \in Faults :
        /\ FaultPossible(p, fault)
        /\ LET out == DeleteDocumentOutcome(backend, cache, p, d, fault)
           IN  /\ backend' = out.b
               /\ cache' = out.c
               /\ lastOp' = [op |-> "delete", persona_id |-> p,
                             document_id |-> d, query |-> "",
                             n_chunks |-> 0, ok |-> out.ok,
                             fault |-> out.fault, raised |-> FALSE]
        /\ found' = << >>
        /\ stats' = NoStats
        /\ UNCHANGED <<chunkVars, processVars, contextVars, kbVars>>

ClearPersonaCollection ==
    \E p \in Personas, fault \in {"none", "call"} :
        /\ LET out == ClearPersonaCollectionOutcome(backend, cache, p, fault)
           IN  /\ backend' = out.b
               /\ cache' = out.c
               /\ lastOp' = [op |-> "clear", persona_id |-> p,
                             document_id |-> "", query |-> "",
                             n_chunks |-> 0, ok |-> out.ok,
                             fault |-> out.fault, raised |-> FALSE]
        /\ found' = << >>
        /\ stats' = NoStats
        /\ UNCHANGED <<chunkVars, processVars, contextVars, kbVars>>

SearchSimilarContent ==
    \E p \in Personas, q \in ChunkTexts, fault \in Faults :
        /\ FaultPossible(p, fault)
        /\ \E ranked \in IF fault = "none"
                          THEN QueryAnswers(backend[CollectionName(p)].recs, q)
                          ELSE {<< >>} :
              LET out == SearchOutcome(backend, cache, p, q, ranked, fault)
              IN  /\ backend' = out.b
                  /\ cache' = out.c
                  /\ found' = out.found
                  /\ lastOp' = [op |-> "search", persona_id |-> p,
                                document_id |-> "", query |-> q,
                                n_chunks |-> 0, ok |-> ~out.fault, fault |-> out.fault,
                                raised |-> out.raised]
        /\ stats' = NoStats
        /\ UNCHANGED <<chunkVars, processVars, contextVars, kbVars>>

\* Mutant: the sample is the whole collection.
SampleAll(recs) == {recs}

\* Line 237: collection.get(limit=10) gives 10 records of the collection,
\* or all of them when it holds fewer; which ones is up to the client.
Samples(recs) ==
    {S \in SUBSET recs :
        Cardinality(S) = Min(SAMPLE_LIMIT, Cardinality(recs))}

\* Lines 240-251: the stats of a count and a sample.
StatsOf(count, sample) ==
    [failed |-> FALSE, total_chunks |-> count,
     estimated_documents |-> Cardinality({r.document_id : r \in sample})]

\* Lines 255-257: the except clause returns {'error': str(e)}.
StatsFailed(got) ==
    [ret |-> [failed |-> TRUE, total_chunks |-> 0, estimated_documents |-> 0],
     fault |-> TRUE, b |-> got.b, c |-> got.c]

\* The results get_collection_stats may give (lines 230-257), one for each
\* sample the client may hand out.
StatsOutcomes(b, c, persona_id, fault) ==
    LET name == CollectionName(persona_id)
        got == GetOrCreateCollection(b, c, persona_id, fault = "collection")
        recs == got.b[name].recs
    IN  IF got.raised THEN {StatsFailed([b |-> b, c |-> c])}
        ELSE IF fault = "call" \/ ~got.b[name].present THEN {StatsFailed(got)}
        ELSE {[ret |-> StatsOf(Cardinality(recs), S), fault |-> FALSE,
               b |-> got.b, c |-> got.c] : S \in Samples(recs)}

GetCollectionStats ==
    \E p \in Personas, fault \in Faults :
        /\ FaultPossible(p, fault)
        /\ \E out \in StatsOutcomes(backend, cache, p, fault) :
              /\ backend' = out.b
              /\ cache' = out.c
              /\ stats' = out.ret
              /\ lastOp' = [op |-> "stats", persona_id |-> p,
                            document_id |-> "", query |-> "",
                            n_chunks |-> 0, ok |-> ~out.fault,
                            fault |-> out.fault, raised |-> FALSE]
        /\ found' = << >>
        /\ UNCHANGED <<chunkVars, processVars, contextVars, kbVars>>

Next ==
    \/ AddDocument
    \/ DeleteDocument
    \/ ClearPersonaCollection
    \/ SearchSimilarContent
    \/ GetCollectionStats

Init == StoreInit /\ ChunkIdle /\ ProcessIdle /\ ContextIdle /\ KbIdle

Spec == Init /\ [][Next]_vars

\* The names of the documents of a large collection.
StatDocNames ==
    <<"s1", "s2", "s3", "s4", "s5", "s6", "s7", "s8", "s9", "s10", "s11",
      "s12">>

\* The records of the first k documents after add_document put big chunks
\* of the first one and one chunk of each other one under persona 1.
LargeCollection(k, big) ==
    UNION {NewRecords(1, StatDocNames[i],
                      [j \in 1..(IF i = 1 THEN big ELSE 1) |-> "x"],
                      [title |-> "t"]) : i \in 1..k}

\* The service after those add_document calls.
StatsInit ==
    /\ \E k \in 0..Len(StatDocNames), big \in 1..Len(StatDocNames) :
          /\ k + big <= Len(StatDocNames) + 1
          /\ backend = [n \in Names |->
                          IF n = CollectionName(1)
                          THEN [present |-> TRUE,
                                recs |-> LargeCollection(k, big)]
                          ELSE NoCollection]
    /\ cache = {CollectionName(1)}
    /\ lastOp = NoOp
    /\ found = << >>
    /\ stats = NoStats
    /\ ChunkIdle /\ ProcessIdle /\ ContextIdle /\ KbIdle

StatsNext == GetCollectionStats

SpecStats == StatsInit /\ [][StatsNext]_vars

-----------------------------------------------------------------------------
(* AIService._get_relevant_context *)

\* A text of n characters whose last character differs from the others.
ContentOfLen(n) == [i \in 1..n |-> IF i = n THEN "z" ELSE "c"]

\* The enumerated results: what search_similar_content builds for a record
\* (vector_store.py lines 177-182), its metadata with or without a title.
NoTitle == [has |-> FALSE, title |-> << >>]

ResultDocs ==
    {[content |-> ContentOfLen(0), metadata |-> NoTitle],
     [content |-> ContentOfLen(CONTEXT_CHARS),
      metadata |-> [has |-> TRUE, title |-> <<"T">>]],
     [content |-> ContentOfLen(CONTEXT_CHARS + 1),
      metadata |-> [has |-> TRUE, title |-> << >>]],
     [content |-> ContentOfLen(CONTEXT_CHARS + 1),
      metadata |-> [has |-> TRUE, title |-> <<"T">>]]}

ResultLists == UNION {[1..k -> ResultDocs] : k \in 0..MaxResults}

Digits == <<"0", "1", "2", "3", "4", "5", "6", "7", "8", "9">>

\* str(i) for a natural number.
RECURSIVE IntStr(_)
IntStr(i) ==
    IF i < 10 THEN <<Digits[i + 1]>>
    ELSE IntStr(i \div 10) \o <<Digits[(i % 10) + 1]>>

\* sep.join(parts)
RECURSIVE Join(_, _)
Join(sep, parts) ==
    IF parts = << >> THEN << >>
    ELSE IF Len(parts) = 1 THEN parts[1]
    ELSE parts[1] \o sep \o Join(sep, Tail(parts))

\* Line 269: the separator "\\n" is a backslash and the letter n.
ContextSeparator == <<"\\", "n">>

\* Line 254
ContextHeader ==
    <<"C", "O", "N", "T", "E", "X", "T", "O", " ", "D", "A", " ", "B", "A",
      "S", "E", " ", "D", "E", " ", "C", "O", "N", "H", "E", "C", "I", "M",
      "E", "N", "T", "O", ":">>

\* Lines 259-263: metadata.get('title') is used when it is truthy.
DocInfo(i, metadata) ==
    <<"D", "o", "c", "u", "m", "e", "n", "t", "o", " ">> \o IntStr(i) \o
    (IF metadata.has /\ metadata.title # << >>
     THEN <<" ", "-", " ">> \o metadata.title ELSE << >>)

\* Mutant: the content is used whole.
WholeContent(doc) == doc.content

\* Line 258: doc['content'][:500]
LimitedContent(doc) == PySlice(doc.content, 0, CONTEXT_CHARS)

\* Lines 265-267: the three parts one document adds.
DocumentBlock(i, doc) ==
    <<DocInfo(i, doc.metadata) \o <<":">>, LimitedContent(doc), <<"-", "-", "-">>>>

\* Lines 257-267: the loop over similar_docs[:3], numbered from 1.
RECURSIVE ContextLoop(_, _, _)
ContextLoop(docs, i, acc) ==
    IF i > Len(docs) THEN acc
    ELSE ContextLoop(docs, i + 1, acc \o DocumentBlock(i, docs[i]))

ContextParts(docs) ==
    ContextLoop(PySlice(docs, 0, CONTEXT_DOCS), 1, <<ContextHeader>>)

\* Mutant: the except clause re-raises.
ContextFailedReraising == [parts |-> << >>, ret |-> << >>, raised |-> TRUE]

\* Lines 271-273: the except clause logs and returns "".
ContextFailed == [parts |-> << >>, ret |-> << >>, raised |-> FALSE]

\* Lines 242-273: _get_relevant_context.
ContextOutcome(docs, how) ==
    IF how = "raises" THEN ContextFailed
    ELSE IF docs = << >>
    THEN [parts |-> << >>, ret |-> << >>, raised |-> FALSE]
    ELSE [parts |-> ContextParts(docs),
          ret |-> Join(ContextSeparator, ContextParts(docs)),
          raised |-> FALSE]

ContextInit ==
    /\ similar_docs \in ResultLists
    /\ retrieval \in {"returns", "raises"}
    /\ context_parts = << >>
    /\ context = << >>
    /\ contextRaised = FALSE
    /\ cpc = "call"
    /\ ChunkIdle
    /\ ProcessIdle
    /\ StoreIdle
    /\ KbIdle

GetRelevantContext ==
    /\ cpc = "call"
    /\ LET out == ContextOutcome(similar_docs, retrieval)
       IN  /\ context_parts' = out.parts
           /\ context' = out.ret
           /\ contextRaised' = out.raised
    /\ cpc' = "returned"
    /\ UNCHANGED <<similar_docs, retrieval>>
    /\ UNCHANGED <<chunkVars, processVars, storeVars, kbVars>>

ContextNext == GetRelevantContext

SpecContext == ContextInit /\ [][ContextNext]_vars

-----------------------------------------------------------------------------
(* upload_document, process_document_async, delete_knowledge_base_document *)

\* Line 73 of config.py: the extensions an upload may have.
ALLOWED_EXTENSIONS ==
    {<<"p", "d", "f">>, <<"d", "o", "c", "x">>, <<"t", "x", "t">>, <<"m", "d">>}

\* The files a task is handed: saved by an upload, perhaps removed since.
KbFiles == {f \in Files : Extension(f) \in ALLOWED_EXTENSIONS}

\* Lines 99-104: the metadata the task passes to process_document.
TaskMeta == [none |-> FALSE, dict |-> [title |-> <<"T">>]]

\* Line 97: what process_document returns to the task.
PipelineResults ==
    {ProcessOutcome(f, TaskMeta, e, sf).ret :
        f \in KbFiles, e \in ExtractOutcomes, sf \in BOOLEAN}

\* Line 120: f"kb_{kb.id}_{uuid.uuid4().hex[:8]}"; one task runs per
\* document, so one uuid is drawn per document.
VectorStoreId(d) == <<"kb_", d, "_", "uuid">>

\* Line 147
VectorErrorMessage ==
    <<"E", "r", "r", "o", " ", "a", "o", " ", "a", "d", "i", "c", "i", "o",
      "n", "a", "r", " ", "d", "o", "c", "u", "m", "e", "n", "t", "o", " ",
      "a", "o", " ", "b", "a", "n", "c", "o", " ", "v", "e", "t", "o", "r",
      "i", "a", "l">>

\* str() of an exception raised inside the task.
ExceptionMessages == {<< >>, <<"d", "b">>}

\* What the except clause meets: nothing, a failing query (line 156) or a
\* failing commit (line 160).
HandlerFaults == {"none", "query", "commit"}

\* Lines 152-162: the except clause.  The failed transaction was rolled
\* back, so the row is as last committed; before is what the try body had
\* assigned.  Whatever the handler meets is swallowed (except: pass).
Handler(row, before, msg, hf, added) ==
    IF hf = "query" \/ ~row.exists
    THEN [row |-> row, assigned |-> before, committed |-> << >>,
          pc |-> "done", added |-> added]
    ELSE IF hf = "commit"
    THEN [row |-> row, assigned |-> Append(before, FAILED),
          committed |-> << >>, pc |-> "done", added |-> added]
    ELSE [row |-> [row EXCEPT !.processing_status = FAILED,
                              !.processing_error = Some(msg)],
          assigned |-> Append(before, FAILED), committed |-> <<FAILED>>,
          pc |-> "done", added |-> added]

\* Lines 83-97: from the start of the task to the await of
\* process_document.  fault: what raises ("none", the query of line 85, the
\* commit of line 92).
StartOutcome(row, fault, msg, hf) ==
    IF fault = "query" THEN Handler(row, << >>, msg, hf, FALSE)
    ELSE IF ~row.exists
    THEN [row |-> row, assigned |-> << >>, committed |-> << >>,
          pc |-> "done", added |-> FALSE]
    ELSE IF fault = "commit"
    THEN Handler(row, <<PROCESSING>>, msg, hf, FALSE)
    ELSE [row |-> [row EXCEPT !.processing_status = PROCESSING],
          assigned |-> <<PROCESSING>>, committed |-> <<PROCESSING>>,
          pc |-> "suspended", added |-> FALSE]

\* Lines 107-150: from the return of process_document to the end of the
\* task.  added: what add_document returned.  The commit raises when asked
\* to (fault) and when the row has been deleted meanwhile.
FinishOutcome(row, d, res, added, fault, msg, hf) ==
    IF ~res.success
    THEN IF fault = "commit" \/ ~row.exists
         THEN Handler(row, <<FAILED>>, msg, hf, FALSE)
         ELSE [row |-> [row EXCEPT !.processing_status = FAILED,
                                   !.processing_error = Some(res.error)],
               assigned |-> <<FAILED>>, committed |-> <<FAILED>>,
               pc |-> "done", added |-> FALSE]
    ELSE LET st == IF added THEN COMPLETED ELSE FAILED
         IN  IF fault = "commit" \/ ~row.exists
             THEN Handler(row, <<st>>, msg, hf, added)
             ELSE [row |-> IF added
                           THEN [row EXCEPT
                                    !.processing_status = COMPLETED,
                                    !.vector_store_id = Some(VectorStoreId(d)),
                                    !.processing_error = Null]
                           ELSE [row EXCEPT
                                    !.processing_status = FAILED,
                                    !.processing_error =
                                        Some(VectorErrorMessage)],
                   assigned |-> <<st>>, committed |-> <<st>>,
                   pc |-> "done", added |-> added]

StartOutcomes(row) ==
    {StartOutcome(row, fault, msg, hf) :
        fault \in {"none", "query", "commit"},
        msg \in ExceptionMessages, hf \in HandlerFaults}

FinishOutcomes(row, d) ==
    {FinishOutcome(row, d, res, added, fault, msg, hf) :
        res \in PipelineResults, added \in BOOLEAN,
        fault \in {"none", "commit"},
        msg \in ExceptionMessages, hf \in HandlerFaults}

KbInit ==
    /\ KbIdle
    /\ ChunkIdle
    /\ ProcessIdle
    /\ StoreIdle
    /\ ContextIdle

\* Lines 217-236: the row is created PENDING and the task is scheduled.
UploadDocument(d) ==
    /\ task[d] = "none"
    /\ kb' = [kb EXCEPT ![d] = [NoRow EXCEPT !.exists = TRUE]]
    /\ task' = [task EXCEPT ![d] = "scheduled"]
    /\ assigned' = [assigned EXCEPT ![d] = <<PENDING>>]
    /\ committed' = [committed EXCEPT ![d] = <<PENDING>>]
    /\ UNCHANGED index
    /\ UNCHANGED <<chunkVars, processVars, storeVars, contextVars>>

TaskStep(d, out) ==
    /\ kb' = [kb EXCEPT ![d] = out.row]
    /\ task' = [task EXCEPT ![d] = out.pc]
    /\ assigned' = [assigned EXCEPT ![d] = @ \o out.assigned]
    /\ committed' = [committed EXCEPT ![d] = @ \o out.committed]
    /\ index' = IF out.added THEN index \cup {VectorStoreId(d)} ELSE index
    /\ UNCHANGED <<chunkVars, processVars, storeVars, contextVars>>

TaskStart(d) ==
    /\ task[d] = "scheduled"
    /\ \E out \in StartOutcomes(kb[d]) : TaskStep(d, out)

TaskFinish(d) ==
    /\ task[d] = "suspended"
    /\ \E out \in FinishOutcomes(kb[d], d) : TaskStep(d, out)

\* Lines 409-435: the vectors are removed when an index reference is set
\* (delete_document may fail without a trace), then the row is deleted.
DeleteKnowledgeBaseDocument(d) ==
    /\ kb[d].exists
    /\ \E removed \in BOOLEAN :
          index' = IF ~kb[d].vector_store_id.null /\ removed
                   THEN index \ {kb[d].vector_store_id.value}
                   ELSE index
    /\ kb' = [kb EXCEPT ![d] = NoRow]
    /\ UNCHANGED <<task, assigned, committed>>
    /\ UNCHANGED <<chunkVars, processVars, storeVars, contextVars>>

KbNext ==
    \E d \in KbIds :
        \/ UploadDocument(d)
        \/ TaskStart(d)
        \/ TaskFinish(d)
        \/ DeleteKnowledgeBaseDocument(d)

SpecKb == KbInit /\ [][KbNext]_vars

\* The event loop runs every task it holds.
FairSpecKb ==
    /\ SpecKb
    /\ \A d \in KbIds : WF_vars(TaskStart(d)) /\ WF_vars(TaskFinish(d))

-----------------------------------------------------------------------------
(* Properties of chunk_text *)

\* The call returned normally.
ChunkDone == pc = "done"

\* The precondition of the chunking contract for a long text.
LongTextContract ==
    Len(text) > chunk_size /\ overlap >= 0 /\ overlap < chunk_size

\* C3: for len(T) > chunk_size and 0 <= overlap < chunk_size the call
\* terminates: the loop's start position eventually reaches len(T).  The
\* loop is deterministic in (start, text), so it terminates exactly when it
\* never begins an iteration at a start position an earlier window had.
C3_ChunkingTerminates ==
    (pc = "loop" /\ LongTextContract) =>
        \A k \in 1..Len(windows) : windows[k][1] # start

\* C4: for len(T) > chunk_size and 0 <= overlap < chunk_size every returned
\* chunk has length <= chunk_size.
C4_ChunkWithinSize ==
    (ChunkDone /\ LongTextContract) =>
        \A k \in 1..Len(chunks) : Len(chunks[k]) <= chunk_size

\* C5: for len(T) <= chunk_size, whatever the overlap, the call returns
\* exactly the one-element sequence [T], with T unmodified.
C5_ShortTextSingleChunk ==
    (ChunkDone /\ Len(text) <= chunk_size) => chunks = <<text>>

\* C5 witness: a whitespace-only text no longer than chunk_size was returned
\* whole, with an overlap that is not smaller than chunk_size.
C5_Witness ==
    /\ ChunkDone
    /\ Len(text) <= chunk_size
    /\ Len(text) > 0
    /\ IsBlank(text)
    /\ overlap >= chunk_size
    /\ chunks = <<text>>

\* C6: a 2500-character text with chunk_size = 1000 and overlap = 200 gives
\* exactly 3 chunks, each of at most 1000 characters, consecutive windows
\* sharing a region of at most 200 characters.
C6_ScenarioThreeChunks ==
    (ChunkDone /\ Len(text) = 2500 /\ chunk_size = 1000 /\ overlap = 200) =>
        /\ Len(chunks) = 3
        /\ \A k \in 1..Len(chunks) : Len(chunks[k]) <= 1000
        /\ \A k \in 1..(Len(windows) - 1) :
               windows[k][2] - windows[k + 1][1] <= 200

-----------------------------------------------------------------------------
(* Properties of process_document *)

\* Whether sub occurs in s (Python's sub in s).
Contains(s, sub) ==
    \E i \in 0..(Len(s) - Len(sub)) : SubSeq(s, i + 1, i + Len(sub)) = sub

\* The call returned to its caller.
ProcessReturned == ppc = "returned"

\* Some extractor supports the file's extension, compared case-insensitively.
ExtractorMatches(f) ==
    \E k \in 1..Len(ProcessorOrder) :
        Extension(f) \in SupportedExtensions(ProcessorOrder[k])

\* The steps that ran include st.
Ran(st) == \E k \in 1..Len(steps) : steps[k] = st

\* C7: process_document never propagates an exception; whatever step fails,
\* it returns success = false, a non-empty error message, text = '' and
\* chunks = [].
C7_FailureResult ==
    ProcessReturned =>
        /\ ~propagated
        /\ ~result.success =>
              /\ result.error # << >>
              /\ result.text = << >>
              /\ result.chunks = << >>

\* C8: success = true if and only if the file exists, an extractor matches,
\* extraction returns without raising and the extracted text is not blank;
\* the first failing check decides the error and no later step runs; on
\* success chunks is chunk_text(text) with the configured sizes.
C8_SuccessIffChecksPass ==
    ProcessReturned =>
        /\ result.success <=>
              /\ file.exists
              /\ ExtractorMatches(file)
              /\ ~extraction.raised
              /\ ~IsBlank(extraction.text)
        /\ ~file.exists =>
              result.error = NotFoundMessage(file) /\ steps = <<"exists">>
        /\ (file.exists /\ ~ExtractorMatches(file)) =>
              /\ result.error = UnsupportedMessage(file)
              /\ steps = <<"exists", "lookup">>
        /\ (file.exists /\ ExtractorMatches(file) /\ extraction.raised) =>
              steps = <<"exists", "lookup", "extract">>
        /\ (file.exists /\ ExtractorMatches(file) /\ ~extraction.raised
               /\ IsBlank(extraction.text)) =>
              /\ result.error = EmptyExtractionMessage
              /\ ~Ran("chunk")
        /\ result.success =>
              result.chunks =
                  ChunkText(result.text, CHUNK_SIZE, CHUNK_OVERLAP).chunks

\* C9: on an existing file whose extension, compared case-insensitively,
\* no extractor supports, process_document returns success = false with an
\* error containing "não suportado", and extract_text is not invoked.
C9_UnsupportedFormat ==
    (ProcessReturned /\ file.exists /\ ~ExtractorMatches(file)) =>
        /\ result.success = FALSE
        /\ Contains(result.error,
                    <<"n", "ã", "o", " ", "s", "u", "p", "o", "r", "t", "a",
                      "d", "o">>)
        /\ ~Ran("extract")

\* C9 witness: the call returned for an existing file named f.CSV.
C9_Witness ==
    /\ ProcessReturned
    /\ file.exists
    /\ file.suffix = <<".", "C", "S", "V">>
    /\ ~result.success
    /\ result.error = UnsupportedMessage(file)

-----------------------------------------------------------------------------
(* Properties of VectorStoreService *)

\* C1 - tenant isolation: whatever add_document, delete_document and
\* clear_persona_collection calls came before, every record that
\* search_similar_content(P, ...) returns was inserted by an add_document
\* call made with persona_id = P.
C1_TenantIsolation ==
    \A k \in 1..Len(found) : found[k].owner = lastOp.persona_id

\* A search for P returned a record while another persona holds a record
\* with the same id and the same text.
C1_Witness ==
    /\ lastOp.op = "search"
    /\ found # << >>
    /\ \E q \in Personas \ {lastOp.persona_id} :
          \E r \in backend[CollectionName(q)].recs :
              r.id = found[1].id /\ r.content = found[1].content

\* C2 - a delete_document(P, D) call in which no storage call raises leaves
\* no record of D in P's collection, leaves every record of every other
\* document of P in place, and leaves every other persona's collection as
\* it was.
C2_DeleteRemovesOnlyDocument ==
    [][(lastOp'.op = "delete" /\ ~lastOp'.fault) =>
          LET name == CollectionName(lastOp'.persona_id)
              D == lastOp'.document_id
          IN  /\ \A r \in backend'[name].recs : r.document_id # D
              /\ backend'[name].recs =
                     {r \in backend[name].recs : r.document_id # D}
              /\ \A n \in Names \ {name} : backend'[n] = backend[n]]_vars

\* delete_document(P, D) removed the records an add_document(P, D, ...) had
\* inserted, while P holds another document and another persona holds
\* records of a document with the same id D.
C2_Witness ==
    /\ lastOp.op = "delete" /\ lastOp.ok
    /\ backend[CollectionName(lastOp.persona_id)].recs # {}
    /\ \A r \in backend[CollectionName(lastOp.persona_id)].recs :
          r.document_id # lastOp.document_id
    /\ \E q \in Personas \ {lastOp.persona_id} :
          \E r \in backend[CollectionName(q)].recs :
              r.document_id = lastOp.document_id

\* C10 - search_similar_content on a persona whose collection holds no
\* record or does not exist, and a search in which a storage call raises,
\* return the empty sequence and raise nothing.
C10_EmptySearchReturnsNothing ==
    [][(/\ lastOp'.op = "search"
        /\ \/ backend[CollectionName(lastOp'.persona_id)].recs = {}
           \/ lastOp'.fault) =>
          (found' = << >> /\ ~lastOp'.raised)]_vars

\* A search that met no storage failure returned nothing for a persona
\* without records, while another persona holds the text searched for.
C10_Witness ==
    /\ lastOp.op = "search" /\ ~lastOp.fault /\ ~lastOp.raised
    /\ found = << >>
    /\ backend[CollectionName(lastOp.persona_id)].recs = {}
    /\ \E q \in Personas \ {lastOp.persona_id} :
          \E r \in backend[CollectionName(q)].recs : r.content = lastOp.query

\* C11 - add_document returns False and raises nothing whenever the
\* collection lookup or creation, or the insert, raises; it returns True
\* only when the insert completed without raising.
C11_AddDocumentFailureIsFalse ==
    lastOp.op = "add" =>
        /\ lastOp.fault => (~lastOp.ok /\ ~lastOp.raised)
        /\ lastOp.ok => ~lastOp.fault

\* add_document met a failure of the collection lookup or creation (no
\* handle is cached afterwards) and returned False.
C11_Witness ==
    /\ lastOp.op = "add" /\ lastOp.fault /\ ~lastOp.ok
    /\ CollectionName(lastOp.persona_id) \notin cache

\* C12 - after add_document(P, D, chunks, m) returns True, P's collection
\* holds exactly len(chunks) records for D, with ids D_chunk_0 ..
\* D_chunk_(n-1), chunk_index 0..n-1 and document_id = D.
C12_AddHoldsExactlyChunks ==
    (lastOp.op = "add" /\ lastOp.ok) =>
        LET D == lastOp.document_id
            held == {r \in backend[CollectionName(lastOp.persona_id)].recs :
                        r.document_id = D}
        IN  /\ Cardinality(held) = lastOp.n_chunks
            /\ Ids(held) = {ChunkId(D, i) : i \in 0..(lastOp.n_chunks - 1)}
            /\ \A r \in held : r.id = ChunkId(D, r.chunk_index)

\* C18 - clear_persona_collection(P), when it returns True, leaves no
\* record of P, so that a search for P that follows finds nothing; and
\* add_document, delete_document and clear_persona_collection called with
\* P leave every other persona's collection as it was.
C18_ClearAndFrame ==
    [][/\ lastOp'.op \in {"add", "delete", "clear"} =>
             \A q \in Personas \ {lastOp'.persona_id} :
                 backend'[CollectionName(q)] = backend[CollectionName(q)]
       /\ (lastOp'.op = "clear" /\ lastOp'.ok) =>
             backend'[CollectionName(lastOp'.persona_id)].recs = {}
       /\ (/\ lastOp.op = "clear" /\ lastOp.ok
           /\ lastOp'.op = "search"
           /\ lastOp'.persona_id = lastOp.persona_id) => found' = << >>
       /\ (/\ lastOp.op = "clear" /\ lastOp.ok
           /\ lastOp'.op = "stats" /\ ~lastOp'.fault
           /\ lastOp'.persona_id = lastOp.persona_id) =>
             stats'.total_chunks = 0]_vars

\* clear_persona_collection(P) returned True while another persona holds
\* records.
C18_Witness ==
    /\ lastOp.op = "clear" /\ lastOp.ok
    /\ backend[CollectionName(lastOp.persona_id)].recs = {}
    /\ \E q \in Personas \ {lastOp.persona_id} :
          backend[CollectionName(q)].recs # {}

\* C19 - a get_collection_stats(P) call in which no storage call raises
\* returns total_chunks equal to the number of records of P's collection and
\* estimated_documents equal to the number of distinct document_id values
\* of some sample of at most 10 of them, hence at most min(10, total_chunks)
\* and at most the number of distinct documents of the collection.
C19_StatsCounts ==
    (lastOp.op = "stats" /\ ~lastOp.fault) =>
        LET recs == backend[CollectionName(lastOp.persona_id)].recs
            docs == {r.document_id : r \in recs}
        IN  /\ ~stats.failed
            /\ stats.total_chunks = Cardinality(recs)
            /\ stats.estimated_documents
                   <= Min(SAMPLE_LIMIT, stats.total_chunks)
            /\ stats.estimated_documents <= Cardinality(docs)
            /\ \E S \in SUBSET docs :
                  /\ Cardinality(S) = stats.estimated_documents
                  /\ Cardinality({r \in recs : r.document_id \in S})
                         >= Min(SAMPLE_LIMIT, Cardinality(recs))

\* The stats of a collection of more than 10 records and more than 10
\* documents.
C19_Witness ==
    /\ lastOp.op = "stats" /\ ~lastOp.fault
    /\ stats.total_chunks > SAMPLE_LIMIT
    /\ stats.estimated_documents = SAMPLE_LIMIT
    /\ Cardinality({r.document_id :
           r \in backend[CollectionName(lastOp.persona_id)].recs})
           > SAMPLE_LIMIT

-----------------------------------------------------------------------------
(* Properties of _get_relevant_context *)

ContextReturned == cpc = "returned"

\* C13 - _get_relevant_context returns the empty string when the search
\* yields no results and when retrieval raises, and lets no exception out.
C13_EmptyContext ==
    ContextReturned =>
        /\ ~contextRaised
        /\ (similar_docs = << >> \/ retrieval = "raises") => context = << >>

\* The search raised while results were at hand, and the call returned "".
C13_Witness ==
    /\ ContextReturned /\ retrieval = "raises" /\ similar_docs # << >>
    /\ context = << >> /\ ~contextRaised

\* C14 - for k results the context holds min(k, 3) document blocks, made
\* from the first results in rank order and numbered from 1, and the
\* content part of each is the first 500 characters of the result's content.
C14_ContextBlocks ==
    (ContextReturned /\ retrieval = "returns" /\ similar_docs # << >>) =>
        LET m == Min(Len(similar_docs), CONTEXT_DOCS)
        IN  /\ Len(context_parts) = 1 + 3 * m
            /\ context = Join(ContextSeparator, context_parts)
            /\ \A i \in 1..m :
                  /\ context_parts[3 * i - 1] =
                         DocInfo(i, similar_docs[i].metadata) \o <<":">>
                  /\ SubSeq(context_parts[3 * i - 1], 11, 11) = IntStr(i)
                  /\ context_parts[3 * i] =
                         SubSeq(similar_docs[i].content, 1,
                                Min(Len(similar_docs[i].content), CONTEXT_CHARS))
                  /\ Len(context_parts[3 * i]) <= CONTEXT_CHARS

\* More than three results, the first longer than 500 characters.
C14_Witness ==
    /\ ContextReturned /\ retrieval = "returns"
    /\ Len(similar_docs) > CONTEXT_DOCS
    /\ Len(similar_docs[1].content) > CONTEXT_CHARS
    /\ Len(context_parts) = 1 + 3 * CONTEXT_DOCS

-----------------------------------------------------------------------------
(* Properties of the document lifecycle *)

Terminal == {COMPLETED, FAILED}

ForwardMoves ==
    {<<PENDING, PROCESSING>>, <<PROCESSING, COMPLETED>>,
     <<PROCESSING, FAILED>>}

\* C15 - a document's status only moves PENDING -> PROCESSING ->
\* (COMPLETED | FAILED): every change of the committed status is one of
\* these moves, and a terminal status is assigned at most once.
C15_StatusMovesForward ==
    \A d \in KbIds :
        /\ \A i \in 1..(Len(committed[d]) - 1) :
              <<committed[d][i], committed[d][i + 1]>> \in ForwardMoves
        /\ Cardinality({i \in 1..Len(assigned[d]) :
                           assigned[d][i] \in Terminal}) <= 1

\* C16 - a COMPLETED document has its index reference set and no
\* processing_error, a FAILED one has a non-empty processing_error, and a
\* document that is not COMPLETED has no index reference.
C16_StatusFields ==
    \A d \in KbIds : kb[d].exists =>
        /\ kb[d].processing_status = COMPLETED =>
              (~kb[d].vector_store_id.null /\ kb[d].processing_error.null)
        /\ kb[d].processing_status = FAILED =>
              (~kb[d].processing_error.null
                  /\ kb[d].processing_error.value # << >>)
        /\ kb[d].processing_status # COMPLETED => kb[d].vector_store_id.null

\* C17 - every uploaded document that is not deleted eventually reaches
\* COMPLETED or FAILED.
C17_EventuallyTerminal ==
    \A d \in KbIds :
        (kb[d].exists /\ kb[d].processing_status \notin Terminal)
            ~> (~kb[d].exists \/ kb[d].processing_status \in Terminal)

-----------------------------------------------------------------------------
(* Further properties of chunk_text *)

\* A string that is not empty and neither starts nor ends with whitespace.
IsStripped(c) ==
    c # << >> /\ c[1] \notin Whitespace /\ c[Len(c)] \notin Whitespace

\* C21 as stated: whenever chunk_text returns, the case len(text) <=
\* chunk_size included, every returned chunk is non-empty and has no
\* leading or trailing whitespace.
C21_EveryChunkStripped ==
    ChunkDone => \A k \in 1..Len(chunks) : IsStripped(chunks[k])

\* C21 amended: whenever chunk_text returns for len(text) > chunk_size,
\* every returned chunk is non-empty and has no leading or trailing
\* whitespace.
C21_LongTextChunksStripped ==
    (ChunkDone /\ Len(text) > chunk_size) =>
        \A k \in 1..Len(chunks) : IsStripped(chunks[k])

\* A long text returned chunks, one of its windows having whitespace at an
\* edge and another being all whitespace.
C21_Witness ==
    /\ ChunkDone
    /\ Len(text) > chunk_size
    /\ chunks # << >>
    /\ \E k \in 1..Len(windows) :
          LET w == PySlice(text, windows[k][1], windows[k][2])
          IN  ~IsBlank(w) /\ w # Strip(w)
    /\ \E k \in 1..Len(windows) :
          LET w == PySlice(text, windows[k][1], windows[k][2])
          IN  w # << >> /\ IsBlank(w)

\* The positions [a, b) of s that the chunk cut from window w keeps after
\* strip().
Extent(s, w) ==
    LET lo == PyClamp(s, w[1])
        piece == PySlice(s, w[1], w[2])
    IN  <<lo + FirstNonWs(piece) - 1, lo + LastNonWs(piece)>>

\* The windows that gave a chunk, in order.
ChunkWindows(s, ws) ==
    SelectSeq(ws, LAMBDA w : ~IsBlank(PySlice(s, w[1], w[2])))

\* The first chunk followed by every later chunk minus the region its
\* extent shares with its predecessor's.
RECURSIVE Rebuild(_, _, _)
Rebuild(s, ws, k) ==
    IF k = 0 THEN << >>
    ELSE IF k = 1 THEN SubSeq(s, Extent(s, ws[1])[1] + 1, Extent(s, ws[1])[2])
    ELSE LET prev == Extent(s, ws[k - 1])
             this == Extent(s, ws[k])
             from == Max(this[1], Min(prev[2], this[2]))
         IN  Rebuild(s, ws, k - 1) \o SubSeq(s, from + 1, this[2])

\* The first window followed by every later window minus the region it
\* shares with its predecessor.
RECURSIVE RebuildWindows(_, _, _)
RebuildWindows(s, ws, k) ==
    IF k = 0 THEN << >>
    ELSE IF k = 1 THEN PySlice(s, ws[1][1], ws[1][2])
    ELSE LET from == Max(ws[k][1], Min(ws[k - 1][2], ws[k][2]))
         IN  RebuildWindows(s, ws, k - 1) \o PySlice(s, from, ws[k][2])

\* C22 as stated: for 0 <= overlap < chunk_size, the first chunk followed by
\* every later chunk minus the region it shares with its predecessor is the
\* stripped text.
C22_RoundTrip ==
    (ChunkDone /\ LongTextContract) =>
        LET ws == ChunkWindows(text, windows)
        IN  /\ Len(chunks) = Len(ws)
            /\ Rebuild(text, ws, Len(ws)) = Strip(text)

\* C22 amended: for 0 <= overlap < chunk_size, the windows the chunks are
\* cut from start at 0, each next one starts after its predecessor's start
\* and not after its end, the last one reaches the end of the text, and the
\* first window followed by every later one minus the region it shares with
\* its predecessor is the text.
C22_WindowsCoverText ==
    (ChunkDone /\ LongTextContract) =>
        /\ windows # << >>
        /\ windows[1][1] = 0
        /\ \A k \in 1..(Len(windows) - 1) :
              /\ windows[k + 1][1] > windows[k][1]
              /\ windows[k + 1][1] <= windows[k][2]
        /\ windows[Len(windows)][2] >= Len(text)
        /\ RebuildWindows(text, windows, Len(windows)) = text

\* A returned call with a positive overlap, three or more windows and a
\* window edge that strip() moved.
C22_Witness ==
    /\ ChunkDone /\ LongTextContract
    /\ overlap > 0
    /\ Len(windows) >= 3
    /\ \E k \in 1..Len(windows) :
          LET w == PySlice(text, windows[k][1], windows[k][2])
          IN  ~IsBlank(w) /\ w # Strip(w)

\* C25 - for len(text) > chunk_size and overlap >= chunk_size, an iteration
\* whose computed next start (end - overlap) does not advance past the
\* current start sets the next start to the end of its window, so every
\* iteration advances and the call terminates (without raising).
C25_DegenerateGuard ==
    [][(pc = "loop" /\ Len(text) > chunk_size /\ overlap >= chunk_size) =>
          LET scan == FindEnd(text, start, chunk_size)
          IN  /\ pc' # "raised"
              /\ scan.end - overlap <= start => start' = scan.end
              /\ start' > start]_vars

\* The sentence-terminating characters: a full stop, an exclamation mark,
\* a question mark and a newline.
SentenceTerminators == {".", "!", "?", "\n"}

\* The cut of the window that starts at st, by the boundary policy: right
\* after the nearest sentence terminator at or before the raw offset, more
\* than LOOKBACK characters before it and the window start excluded; the
\* raw offset when there is none.
PolicyEnd(s, st, cs) ==
    LET end == st + cs
        stops == {i \in (Max(st + cs - LOOKBACK, st) + 1)..end :
                     PyInRange(s, i) /\ PyAt(s, i) \in SentenceTerminators}
    IN  IF stops = {} THEN end ELSE MaxOf(stops) + 1

\* C26 - a window whose raw end lies before the end of the text is cut
\* right after the nearest of '.', '!', '?' and newline within the lookback,
\* and at the raw offset when there is none; no other character moves the
\* cut.
C26_BoundaryPolicy ==
    [][(/\ pc = "loop"
        /\ start >= 0
        /\ start + chunk_size < Len(text)
        /\ Len(windows) < ChunkCap) =>
          /\ pc' # "raised"
          /\ windows' =
                Append(windows, <<start, PolicyEnd(text, start, chunk_size)>>)]_vars

\* C27 as stated: for len(text) > chunk_size, each window after the first
\* starts exactly chunk_size - overlap characters after the previous
\* window's start, whether or not the previous window's end was moved.
C27_FixedStride ==
    Len(text) > chunk_size =>
        \A k \in 1..(Len(windows) - 1) :
            windows[k + 1][1] = windows[k][1] + chunk_size - overlap

\* C27 amended: for len(text) > chunk_size and overlap >= 0, the first
\* window starts at 0 and each later window starts exactly overlap
\* characters before the previous window's end as cut, which is
\* chunk_size - overlap after the previous start only when that end was
\* not moved.
C27_StartFollowsEnd ==
    Len(text) > chunk_size =>
        /\ windows # << >> => windows[1][1] = 0
        /\ \A k \in 1..(Len(windows) - 1) :
              /\ windows[k + 1][1] = windows[k][2] - overlap
              /\ windows[k][2] = windows[k][1] + chunk_size =>
                    windows[k + 1][1] = windows[k][1] + chunk_size - overlap
        /\ (pc \in {"loop", "done"} /\ Len(windows) \in 1..(ChunkCap - 1)) =>
              start = windows[Len(windows)][2] - overlap

\* A window whose end was moved by the scan, followed by another window,
\* with a positive overlap smaller than chunk_size.
C27_Witness ==
    /\ Len(text) > chunk_size
    /\ overlap > 0 /\ overlap < chunk_size
    /\ \E k \in 1..(Len(windows) - 1) :
          /\ windows[k][2] # windows[k][1] + chunk_size
          /\ windows[k + 1][1] = windows[k][2] - overlap

-----------------------------------------------------------------------------
(* Further properties of VectorStoreService *)

\* The names of the collections the client holds.
Existing(b) == {n \in Names : b[n].present}

\* C23 - search_similar_content, get_collection_stats and delete_document
\* on a persona whose collection was never written (it does not exist)
\* leave the set of collections, at the client and in the cache, as it
\* was; and getting a collection that exists keeps it and, for a search or
\* a stats call, its records.
C23_LazyCreation ==
    [][LET n == CollectionName(lastOp'.persona_id)
       IN  /\ (/\ lastOp'.op \in {"search", "stats", "delete"}
               /\ ~backend[n].present
               /\ n \notin cache) =>
                 Existing(backend') = Existing(backend) /\ cache' = cache
           /\ (/\ lastOp'.op \in {"add", "search", "stats", "delete"}
               /\ backend[n].present) =>
                 /\ backend'[n].present
                 /\ lastOp'.op \in {"search", "stats"} =>
                       backend'[n].recs = backend[n].recs]_vars

-----------------------------------------------------------------------------
(* Further properties of the document lifecycle *)

\* The errors a task stores for a failure of the document's file, of its
\* extraction, of the vector store or of the database.
ReportedErrors ==
    {ProcessOutcome(f, TaskMeta, e, TRUE).ret.error :
        f \in KbFiles, e \in ExtractOutcomes}
        \cup ExceptionMessages \cup {VectorErrorMessage}

\* The task of document d ended with a committed terminal status and met
\* no failure of the file, the extraction, the vector store or the database.
IngestedCleanly(d) ==
    /\ task[d] = "done"
    /\ kb[d].exists
    /\ kb[d].processing_status \in {COMPLETED, FAILED}
    /\ kb[d].processing_status = FAILED =>
          /\ ~kb[d].processing_error.null
          /\ kb[d].processing_error.value \notin ReportedErrors

Deleted(d) == ~kb[d].exists /\ task[d] # "none"

-----------------------------------------------------------------------------
(* Further properties of process_document *)

=============================================================================
